---- MODULE Spec2Model ----
(***************************************************************************)
(* Model of DeepLabCut/convert.py: the file classifier is_DLC_output, the  *)
(* single-file converter convert and the tree walker convert_recursive,    *)
(* over an explicit model of the filesystem.                               *)
(*                                                                         *)
(* A file name is a sequence of characters; a path is a sequence of names  *)
(* relative to the working directory (<<>> is the working directory).      *)
(* An Optional value is a set: {} is None and {x} is the value x.          *)
(***************************************************************************)
EXTENDS Naturals, Sequences, FiniteSets, TLC

VARIABLES
    fs,        \* the filesystem: existing path |-> [kind, data]
    fs0,       \* the filesystem before the first operation
    args,      \* the arguments of convert / convert_recursive
    calls,     \* one record per finished convert invocation, in order
    pc,        \* position of the walker / the caller
    stack,     \* _recurse_single's call stack: frames [dir, todo]
    printed,   \* what was printed, in order: [file, text, name]
    procs,     \* the concurrent convert invocations, one record each
    filepath,  \* the classifier's input
    verdict    \* the classifier's output for filepath

vars == <<fs, fs0, args, calls, pc, stack, printed, procs, filepath, verdict>>

(***************************************************************************)
(* Bounds                                                                  *)
(***************************************************************************)
\* names given to the classifier are concatenations of at most MaxTokens tokens
MaxTokens == 3
\* the initial tree holds at most MaxFiles files
MaxFiles == 2
\* convert is called at most MaxCalls times in a row with the same arguments
MaxCalls == 2

(***************************************************************************)
(* Character strings                                                       *)
(***************************************************************************)
DLC_OUTPUT_SUFFIX == <<".", "h", "5">>
CSV_SUFFIX == <<".", "c", "s", "v">>
DLC_MARK == <<"D", "L", "C", "_">>
DEEPLABCUT_MARK == <<"D", "e", "e", "p", "L", "a", "b", "C", "u", "t", "_">>
SHUFFLE_MARK == <<"s", "h", "u", "f", "f", "l", "e">>

\* Python's `sub in s`
Contains(s, sub) ==
    \E i \in 0..Len(s) :
        /\ i + Len(sub) <= Len(s)
        /\ \A j \in 1..Len(sub) : s[i + j] = sub[j]

\* str.rfind('.'), 0-based, -1 written as Len(s) + 1 so that the value is a natural
HasDot(s) == \E i \in 1..Len(s) : s[i] = "."
LastDot(s) == CHOOSE i \in 1..Len(s) : s[i] = "." /\ \A j \in (i + 1)..Len(s) : s[j] # "."

(***************************************************************************)
(* pathlib                                                                 *)
(***************************************************************************)
PathName(p) == IF Len(p) = 0 THEN <<>> ELSE p[Len(p)]
PathParent(p) == IF Len(p) = 0 THEN <<>> ELSE SubSeq(p, 1, Len(p) - 1)
PathJoin(d, n) == d \o <<n>>

\* PurePath.suffix: the part of the name from its last dot, when that dot is
\* neither the first nor the last character of the name
HasSuffix(n) == HasDot(n) /\ 1 < LastDot(n) /\ LastDot(n) < Len(n)
Suffix(n) == IF HasSuffix(n) THEN SubSeq(n, LastDot(n), Len(n)) ELSE <<>>
Stem(n) == IF HasSuffix(n) THEN SubSeq(n, 1, LastDot(n) - 1) ELSE n
PathSuffix(p) == Suffix(PathName(p))
PathStem(p) == Stem(PathName(p))
PathWithName(p, n) == PathJoin(PathParent(p), n)

(***************************************************************************)
(* is_DLC_output                                                           *)
(***************************************************************************)
\* variant: the three markers tested as one condition
is_DLC_output_AnyMark(p) ==
    IF PathSuffix(p) # DLC_OUTPUT_SUFFIX THEN FALSE
    ELSE IF ~Contains(PathName(p), DLC_MARK)
            /\ ~Contains(PathName(p), DEEPLABCUT_MARK)
            /\ ~Contains(PathName(p), SHUFFLE_MARK) THEN FALSE
    ELSE TRUE

is_DLC_output(p) ==
    IF PathSuffix(p) # DLC_OUTPUT_SUFFIX THEN FALSE
    ELSE IF ~Contains(PathName(p), DLC_MARK)
            /\ ~Contains(PathName(p), DEEPLABCUT_MARK) THEN FALSE
    ELSE IF ~Contains(PathName(p), SHUFFLE_MARK) THEN FALSE
    ELSE TRUE

(***************************************************************************)
(* The filesystem, as os and pathlib see it.  fs maps every existing path  *)
(* to [kind |-> "dir" | "file", data |-> its content]; the working         *)
(* directory <<>> always exists, and every existing path's parent is an    *)
(* existing directory.                                                     *)
(***************************************************************************)
DirEntry == [kind |-> "dir", data |-> ""]
FileEntry(d) == [kind |-> "file", data |-> d]

Exists(f, p) == p \in DOMAIN f
IsDir(f, p) == p \in DOMAIN f /\ f[p].kind = "dir"
IsFile(f, p) == p \in DOMAIN f /\ f[p].kind = "file"
Listdir(f, d) == {p \in DOMAIN f : Len(p) = Len(d) + 1 /\ PathParent(p) = d}
WithEntry(f, p, e) == [q \in DOMAIN f \cup {p} |-> IF q = p THEN e ELSE f[q]]

\* the error of resolving d as a directory: "" when d is a directory
RECURSIVE DirError(_, _)
DirError(f, d) ==
    IF d \in DOMAIN f
    THEN IF f[d].kind = "dir" THEN "" ELSE "NotADirectoryError"
    ELSE LET up == DirError(f, PathParent(d))
         IN IF up = "" THEN "FileNotFoundError" ELSE up

\* os.mkdir
OsMkdir(f, p) ==
    IF Exists(f, p) THEN [err |-> "FileExistsError", fs |-> f]
    ELSE IF DirError(f, PathParent(p)) # ""
    THEN [err |-> DirError(f, PathParent(p)), fs |-> f]
    ELSE [err |-> "", fs |-> WithEntry(f, p, DirEntry)]

\* Path.mkdir(parents=True, exist_ok=exist_ok)
RECURSIVE Mkdir(_, _, _)
Mkdir(f, p, exist_ok) ==
    LET r == OsMkdir(f, p) IN
    IF r.err = "" THEN r
    ELSE IF r.err = "FileNotFoundError"
    THEN IF PathParent(p) = p THEN r
         ELSE LET up == Mkdir(f, PathParent(p), TRUE) IN
              IF up.err # "" THEN up
              ELSE LET again == OsMkdir(up.fs, p) IN
                   IF again.err # "" /\ exist_ok /\ IsDir(up.fs, p)
                   THEN [err |-> "", fs |-> up.fs]
                   ELSE again
    ELSE IF exist_ok /\ IsDir(f, p) THEN [err |-> "", fs |-> f] ELSE r

(***************************************************************************)
(* pandas.  A file's content is a string; "hdfA", "hdfB" and "hdfX" hold   *)
(* the tables "tabA", "tabB" and "tabX", anything else is no HDF5 file.    *)
(* "tabX" is a table whose serialization fails after the destination was   *)
(* opened, which leaves a partial file.                                    *)
(***************************************************************************)
HdfTable(d) ==
    CASE d = "hdfA" -> {"tabA"}
      [] d = "hdfB" -> {"tabB"}
      [] d = "hdfX" -> {"tabX"}
      [] OTHER -> {}

CsvText(tab) ==
    CASE tab = "tabA" -> "csvA"
      [] tab = "tabB" -> "csvB"
      [] OTHER -> "partial"

Serializable(tab) == tab \in {"tabA", "tabB"}

\* pd.read_hdf(srcfile)
ReadHdf(f, src) ==
    IF ~Exists(f, src) THEN [err |-> "FileNotFoundError", tab |-> {}]
    ELSE IF IsDir(f, src) THEN [err |-> "IsADirectoryError", tab |-> {}]
    ELSE IF HdfTable(f[src].data) = {} THEN [err |-> "not an HDF5 file", tab |-> {}]
    ELSE [err |-> "", tab |-> HdfTable(f[src].data)]

\* tab.to_csv(dstfile, header=True, index=False): opens dstfile for writing,
\* which creates or truncates it, then writes the text
ToCsv(f, tab, dst) ==
    IF DirError(f, PathParent(dst)) # ""
    THEN [err |-> DirError(f, PathParent(dst)), fs |-> f, opened |-> FALSE]
    ELSE IF IsDir(f, dst) THEN [err |-> "IsADirectoryError", fs |-> f, opened |-> FALSE]
    ELSE [err |-> IF Serializable(tab) THEN "" ELSE "cannot serialize",
          fs |-> WithEntry(f, dst, FileEntry(CsvText(tab))), opened |-> TRUE]

(***************************************************************************)
(* Result                                                                  *)
(***************************************************************************)
SKIP_MESSAGE == "the converted file already exists"
FAIL_PREFIX == "failed to convert: "

ResultSuccess(dstfile) == [dstfile |-> dstfile, status |-> "SUCCESS", message |-> {}]
ResultSkipped(dstfile, message) ==
    [dstfile |-> dstfile, status |-> "SKIPPED", message |-> {message}]
ResultFailed(dstfile, message) ==
    [dstfile |-> dstfile, status |-> "FAILED", message |-> {message}]

is_success(r) == r.status = "SUCCESS"
is_skipped(r) == r.status = "SKIPPED"
is_failed(r) == r.status = "FAILED"

(***************************************************************************)
(* Conversions and the registry                                            *)
(***************************************************************************)
\* srcfile.with_name(f"{srcfile.stem}.csv"); srcfile names a file, so its name is
\* not empty (with_name raises ValueError for a path without a name)
CSVConversion_dstfile(srcfile) == PathWithName(srcfile, PathStem(srcfile) \o CSV_SUFFIX)
\* variant: an existing destination is left as it is
CSVConversion_convert_KeepExisting(f, tab, dstfile) ==
    IF Exists(f, dstfile) THEN [err |-> "", fs |-> f, opened |-> FALSE]
    ELSE ToCsv(f, tab, dstfile)
CSVConversion_convert(f, tab, dstfile) == ToCsv(f, tab, dstfile)

FORMATS == [fmt \in {"csv"} |-> "CSVConversion"]

\* variant: an unknown format falls back to csv
FormatsGet_Default(fileformat) == {"CSVConversion"}
\* FORMATS.get(fileformat, None)
FormatsGet(fileformat) ==
    IF fileformat \in DOMAIN FORMATS THEN {FORMATS[fileformat]} ELSE {}

\* the method the conversion class binds (only CSVConversion overrides the base)
Conversion_dstfile(cls, srcfile) ==
    CASE cls = "CSVConversion" -> CSVConversion_dstfile(srcfile)

Conversion_convert(cls, f, tab, dstfile) ==
    CASE cls = "CSVConversion" -> CSVConversion_convert(f, tab, dstfile)

(***************************************************************************)
(* convert.  Its outcome: the exception it raised or the Result it         *)
(* returned, the filesystem it leaves, the filesystem operations it made   *)
(* (in order) and what print_exc wrote.                                    *)
(***************************************************************************)
\* err is "" when the operation succeeded; opened tells that to_csv opened its file
Op(op, path, err, opened) == [op |-> op, path |-> path, err |-> err, opened |-> opened]

Raise(f, e, ops) ==
    [raised |-> {e}, result |-> {}, fs |-> f, ops |-> ops, trace |-> {}]
Return(f, r, ops) ==
    [raised |-> {}, result |-> {r}, fs |-> f, ops |-> ops, trace |-> {}]

\* variant: dstdir is ignored
ResolveDst_KeepDefault(cls, srcfile, dstdir) == Conversion_dstfile(cls, srcfile)
\* dstfile = conversion.dstfile, rebased on dstdir when one is given
ResolveDst(cls, srcfile, dstdir) ==
    LET dstfile == Conversion_dstfile(cls, srcfile) IN
    IF dstdir # {}
    THEN PathJoin(CHOOSE d \in dstdir : TRUE, PathName(dstfile))
    ELSE dstfile

\* variants: no existence check; the overwrite flag ignored
ShouldSkip_Never(f, dstfile, overwrite) == FALSE
ShouldSkip_AnyOverwrite(f, dstfile, overwrite) == Exists(f, dstfile)
\* dstfile.exists() and (bool(overwrite) is False)
ShouldSkip(f, dstfile, overwrite) == Exists(f, dstfile) /\ overwrite = FALSE

\* variant: the exception is not caught
Except_Reraise(f, dstfile, e, ops) == Raise(f, e, ops)
\* except Exception as e: print_exc(); return Result.failed(...)
Except(f, dstfile, e, ops) ==
    [raised |-> {}, result |-> {ResultFailed(dstfile, FAIL_PREFIX \o e)},
     fs |-> f, ops |-> ops, trace |-> {e}]

\* tab = pd.read_hdf(srcfile); conversion.convert(tab, dstfile); return success
LoadAndConvert(f, cls, srcfile, dstfile, ops) ==
    LET rd == ReadHdf(f, srcfile)
        ops1 == Append(ops, Op("read_hdf", srcfile, rd.err, FALSE))
    IN IF rd.err # "" THEN Except(f, dstfile, rd.err, ops1)
       ELSE LET wr == Conversion_convert(cls, f, CHOOSE t \in rd.tab : TRUE, dstfile)
                ops2 == Append(ops1, Op("to_csv", dstfile, wr.err, wr.opened))
            IN IF wr.err # "" THEN Except(wr.fs, dstfile, wr.err, ops2)
               ELSE Return(wr.fs, ResultSuccess(dstfile), ops2)

\* convert with the directory creation moved in front of the try statement
Convert_MkdirUnprotected(f, srcfile, fileformat, dstdir, overwrite) ==
    LET Converter == FormatsGet(fileformat) IN
    IF Converter = {} THEN Raise(f, "KeyError", <<>>)
    ELSE
    LET cls == CHOOSE c \in Converter : TRUE
        dstfile == ResolveDst(cls, srcfile, dstdir)
        parent == PathParent(dstfile)
        ops1 == <<Op("exists", parent, "", FALSE)>>
    IN IF ~Exists(f, parent)
       THEN LET mk == Mkdir(f, parent, FALSE)
                ops2 == Append(ops1, Op("mkdir", parent, mk.err, FALSE))
            IN IF mk.err # "" THEN Raise(mk.fs, mk.err, ops2)
               ELSE LoadAndConvert(mk.fs, cls, srcfile, dstfile, ops2)
       ELSE LET ops2 == Append(ops1, Op("exists", dstfile, "", FALSE))
            IN IF ShouldSkip(f, dstfile, overwrite)
               THEN Return(f, ResultSkipped(dstfile, SKIP_MESSAGE), ops2)
               ELSE LoadAndConvert(f, cls, srcfile, dstfile, ops2)

Convert(f, srcfile, fileformat, dstdir, overwrite) ==
    LET Converter == FormatsGet(fileformat) IN
    IF Converter = {} THEN Raise(f, "KeyError", <<>>)
    ELSE
    LET cls == CHOOSE c \in Converter : TRUE
        dstfile == ResolveDst(cls, srcfile, dstdir)
        parent == PathParent(dstfile)
        ops1 == <<Op("exists", parent, "", FALSE)>>
    IN IF ~Exists(f, parent)
       THEN LET mk == Mkdir(f, parent, FALSE)
                ops2 == Append(ops1, Op("mkdir", parent, mk.err, FALSE))
            IN IF mk.err # "" THEN Except(mk.fs, dstfile, mk.err, ops2)
               ELSE LoadAndConvert(mk.fs, cls, srcfile, dstfile, ops2)
       ELSE LET ops2 == Append(ops1, Op("exists", dstfile, "", FALSE))
            IN IF ShouldSkip(f, dstfile, overwrite)
               THEN Return(f, ResultSkipped(dstfile, SKIP_MESSAGE), ops2)
               ELSE LoadAndConvert(f, cls, srcfile, dstfile, ops2)

\* the record kept of one invocation
Call(f, srcfile, fileformat, dstdir, overwrite) ==
    [srcfile |-> srcfile, fileformat |-> fileformat, dstdir |-> dstdir,
     overwrite |-> overwrite, pre |-> f,
     out |-> Convert(f, srcfile, fileformat, dstdir, overwrite)]

(***************************************************************************)
(* The trees and arguments the operations are run on                       *)
(***************************************************************************)
A == <<"a">>
B == <<"b">>
OUT == <<"o", "u", "t">>
SRC_NAME == <<"m">> \o DLC_MARK \o SHUFFLE_MARK \o DLC_OUTPUT_SUFFIX
CSV_NAME == <<"m">> \o DLC_MARK \o SHUFFLE_MARK \o CSV_SUFFIX
OTHER_NAME == <<"m">> \o DLC_MARK \o DLC_OUTPUT_SUFFIX

TreeDirs == {<<>>, <<A>>, <<A, B>>}
SrcPaths == {PathJoin(d, SRC_NAME) : d \in TreeDirs}

\* what a tree may hold: a path and the entry at it
TreeChoices ==
    UNION {
        {<<PathJoin(d, SRC_NAME), FileEntry(c)>> : c \in {"hdfA", "hdfB", "hdfX", "junk"}}
        \cup {<<PathJoin(d, CSV_NAME), FileEntry("old")>>,
              <<PathJoin(d, CSV_NAME), DirEntry>>,
              <<PathJoin(d, OTHER_NAME), FileEntry("hdfA")>>}
        : d \in TreeDirs}

RECURSIVE Picks(_)
Picks(k) ==
    IF k = 0 THEN {{}}
    ELSE LET prev == Picks(k - 1) IN
         prev \cup
         {x[1] \cup {x[2]} :
             x \in {y \in prev \X TreeChoices : \A c \in y[1] : c[1] # y[2][1]}}

Prefixes(p) == {SubSeq(p, 1, n) : n \in 0..Len(p)}

MakeFs(S) ==
    LET chosen == {c[1] : c \in S}
        paths == {<<>>} \cup UNION {Prefixes(q) : q \in chosen}
    IN [q \in paths |->
           IF q \in chosen THEN (CHOOSE c \in S : c[1] = q)[2] ELSE DirEntry]

Trees == {MakeFs(S) : S \in Picks(MaxFiles)}

\* the filesystem invariant the operating system keeps
WellFormed(f) ==
    /\ IsDir(f, <<>>)
    /\ \A q \in DOMAIN f : IsDir(f, PathParent(q))

DstDirs == {{}, {<<A>>}, {<<OUT>>}, {<<SRC_NAME, OUT>>}}
Formats == {"csv", "xml"}

WalkArgs ==
    [directory : {<<>>, <<A>>}, srcfile : {<<>>}, fileformat : Formats,
     dstdir : DstDirs, overwrite : BOOLEAN]

ConvertArgs ==
    [directory : {<<>>}, srcfile : SrcPaths \cup {<<OTHER_NAME>>},
     fileformat : Formats, dstdir : DstDirs, overwrite : BOOLEAN]

(***************************************************************************)
(* convert_recursive                                                       *)
(***************************************************************************)
Line(file, text, name) == [file |-> file, text |-> text, name |-> name]

\* what print_exc(file=sys.stderr) adds
TraceLines(out) == IF out.trace = {} THEN <<>>
                   ELSE <<Line("stderr", "Traceback", <<>>)>>

\* variant: every file is reported like a converted one
Report_AlwaysStdout(result, child) == Line("stdout", "", PathName(child))
\* the line printed for one Result
Report(result, child) ==
    IF is_success(result)
    THEN Line("stdout", "", PathName(child))
    ELSE Line("stderr",
              "***" \o (CHOOSE m \in result.message : TRUE) \o ": ",
              PathName(child))

\* current.iterdir(): the listing is taken when the loop starts
Frame(f, d) == [dir |-> d, todo |-> Listdir(f, d)]
Top == stack[Len(stack)]
Pop == SubSeq(stack, 1, Len(stack) - 1)
Advance(child) == [stack EXCEPT ![Len(stack)].todo = @ \ {child}]

\* _recurse_single(directory)
Enter ==
    /\ pc = "start"
    /\ IF IsDir(fs, args.directory)
       THEN pc' = "walking" /\ stack' = <<Frame(fs, args.directory)>>
       ELSE pc' = "raised" /\ stack' = <<>>
    /\ UNCHANGED <<fs, fs0, args, calls, printed, procs, filepath, verdict>>

\* if child.is_dir(): _recurse_single(child)
VisitDir ==
    /\ pc = "walking" /\ Len(stack) > 0
    /\ \E child \in Top.todo :
        /\ IsDir(fs, child)
        /\ stack' = Append(Advance(child), Frame(fs, child))
    /\ UNCHANGED <<fs, fs0, args, calls, pc, printed, procs, filepath, verdict>>

\* elif is_DLC_output(child): result = convert(...); print
VisitMatch ==
    /\ pc = "walking" /\ Len(stack) > 0
    /\ \E child \in Top.todo :
        /\ ~IsDir(fs, child)
        /\ is_DLC_output(child)
        /\ \E c \in {Call(fs, child, args.fileformat, args.dstdir, args.overwrite)} :
            /\ calls' = Append(calls, c)
            /\ fs' = c.out.fs
            /\ IF c.out.raised # {}
               THEN /\ pc' = "raised"
                    /\ stack' = <<>>
                    /\ printed' = printed \o TraceLines(c.out)
               ELSE /\ pc' = pc
                    /\ stack' = Advance(child)
                    /\ printed' = printed \o TraceLines(c.out)
                          \o <<Report(CHOOSE r \in c.out.result : TRUE, child)>>
    /\ UNCHANGED <<fs0, args, procs, filepath, verdict>>

\* else: pass
VisitOther ==
    /\ pc = "walking" /\ Len(stack) > 0
    /\ \E child \in Top.todo :
        /\ ~IsDir(fs, child)
        /\ ~is_DLC_output(child)
        /\ stack' = Advance(child)
    /\ UNCHANGED <<fs, fs0, args, calls, pc, printed, procs, filepath, verdict>>

\* the loop of one _recurse_single ends
Leave ==
    /\ pc = "walking" /\ Len(stack) > 0
    /\ Top.todo = {}
    /\ stack' = Pop
    /\ pc' = IF Len(stack) = 1 THEN "done" ELSE pc
    /\ UNCHANGED <<fs, fs0, args, calls, printed, procs, filepath, verdict>>

InitWalk ==
    /\ fs \in Trees /\ fs0 = fs
    /\ args \in WalkArgs
    /\ calls = <<>> /\ pc = "start" /\ stack = <<>> /\ printed = <<>>
    /\ procs = <<>> /\ filepath = <<>> /\ verdict = FALSE

NextWalk == Enter \/ VisitDir \/ VisitMatch \/ VisitOther \/ Leave

\* the walk is one sequential program: it keeps running until it returns or raises
SpecWalk == InitWalk /\ [][NextWalk]_vars /\ WF_vars(NextWalk)

(***************************************************************************)
(* convert, called MaxCalls times in a row by one caller                   *)
(***************************************************************************)
CallConvert ==
    /\ pc = "caller" /\ Len(calls) < MaxCalls
    /\ \E c \in {Call(fs, args.srcfile, args.fileformat, args.dstdir, args.overwrite)} :
        /\ calls' = Append(calls, c)
        /\ fs' = c.out.fs
        /\ printed' = printed \o TraceLines(c.out)
    /\ UNCHANGED <<fs0, args, pc, stack, procs, filepath, verdict>>

InitConvert ==
    /\ fs \in Trees /\ fs0 = fs
    /\ args \in ConvertArgs
    /\ calls = <<>> /\ pc = "caller" /\ stack = <<>> /\ printed = <<>>
    /\ procs = <<>> /\ filepath = <<>> /\ verdict = FALSE

NextConvert == CallConvert

SpecConvert == InitConvert /\ [][NextConvert]_vars

(***************************************************************************)
(* Vocabulary of the properties                                            *)
(***************************************************************************)
Registered(fileformat) == fileformat \in {"csv"}
TheDir(dstdir) == CHOOSE d \in dstdir : TRUE
TheResult(c) == CHOOSE r \in c.out.result : TRUE
Returned(c) == c.out.raised = {} /\ Cardinality(c.out.result) = 1
OpsOf(c, kinds) == {i \in 1..Len(c.out.ops) : c.out.ops[i].op \in kinds}
FailedOps(c) == {i \in 1..Len(c.out.ops) : c.out.ops[i].err # ""}
EndsWith(s, tail) ==
    Len(s) >= Len(tail) /\ SubSeq(s, Len(s) - Len(tail) + 1, Len(s)) = tail

\* the destination the specification names: <dstdir or parent of src>/<stem of src>.csv
SpecDst(c) ==
    PathJoin(IF c.dstdir = {} THEN PathParent(c.srcfile) ELSE TheDir(c.dstdir),
             PathStem(c.srcfile) \o CSV_SUFFIX)

(***************************************************************************)
(* Properties of convert, under SpecConvert                                *)
(***************************************************************************)
\* C2: a call with a registered format whose destination exists and whose
\* overwrite is false returns SKIPPED "the converted file already exists" for
\* that destination, loads nothing, writes nothing, creates nothing and leaves
\* the filesystem as it was.
C2_SkipLeavesEverythingAlone ==
    \A i \in 1..Len(calls) :
        LET c == calls[i] IN
        (Registered(c.fileformat) /\ Exists(c.pre, SpecDst(c)) /\ c.overwrite = FALSE)
        => /\ Returned(c)
           /\ TheResult(c) = [dstfile |-> SpecDst(c), status |-> "SKIPPED",
                              message |-> {"the converted file already exists"}]
           /\ OpsOf(c, {"read_hdf", "to_csv", "mkdir"}) = {}
           /\ c.out.fs = c.pre
           /\ c.out.trace = {}

C2_Witness ==
    /\ Len(calls) >= 1
    /\ IsFile(fs0, SpecDst(calls[1])) /\ fs0[SpecDst(calls[1])].data = "old"
    /\ IsFile(fs0, calls[1].srcfile) /\ fs0[calls[1].srcfile].data = "hdfA"
    /\ calls[1].dstdir # {}
    /\ calls[1].overwrite = FALSE
    /\ Registered(calls[1].fileformat)
    /\ is_skipped(TheResult(calls[1]))
    /\ fs = fs0

\* C3: with a registered format convert raises nothing: when creating the
\* destination directory, loading the source or serializing the table raised, it
\* printed a trace and returned FAILED "failed to convert: <exception message>"
\* for the resolved destination; when the load and the serialization both
\* succeeded it returned SUCCESS for that destination.
C3_ExceptionsBecomeFailedResults ==
    \A i \in 1..Len(calls) :
        LET c == calls[i] IN
        Registered(c.fileformat)
        => /\ Returned(c)
           /\ TheResult(c).dstfile = SpecDst(c)
           /\ \A k \in FailedOps(c) :
                /\ c.out.ops[k].op \in {"mkdir", "read_hdf", "to_csv"}
                /\ TheResult(c) = [dstfile |-> SpecDst(c), status |-> "FAILED",
                        message |-> {"failed to convert: " \o c.out.ops[k].err}]
                /\ c.out.trace = {c.out.ops[k].err}
           /\ (FailedOps(c) = {} /\ OpsOf(c, {"read_hdf"}) # {} /\ OpsOf(c, {"to_csv"}) # {})
                => TheResult(c) = [dstfile |-> SpecDst(c), status |-> "SUCCESS",
                                   message |-> {}]
           /\ is_failed(TheResult(c)) => FailedOps(c) # {}

\* a serialization that raised after it had opened the destination
C3_Witness ==
    /\ Len(calls) >= 1
    /\ Registered(calls[1].fileformat)
    /\ \E k \in FailedOps(calls[1]) :
          calls[1].out.ops[k].op = "to_csv" /\ calls[1].out.ops[k].opened
    /\ is_failed(TheResult(calls[1]))
    /\ fs # fs0
    /\ \E j \in 1..Len(printed) : printed[j].text = "Traceback"

\* C5: with a format that is no key of the registry convert raises KeyError,
\* returns no Result, and has made no filesystem operation at all: no existence
\* check, no mkdir, no load, no write; the filesystem is as it was.
C5_UnregisteredFormatRaisesFirst ==
    \A i \in 1..Len(calls) :
        LET c == calls[i] IN
        ~Registered(c.fileformat)
        => /\ c.out.raised = {"KeyError"}
           /\ c.out.result = {}
           /\ c.out.ops = <<>>
           /\ c.out.fs = c.pre
           /\ c.out.trace = {}

\* an unregistered format where a registered one would have created the
\* destination directory and written the file
C5_Witness ==
    /\ Len(calls) >= 1
    /\ calls[1].fileformat = "xml"
    /\ calls[1].dstdir # {} /\ ~Exists(fs0, TheDir(calls[1].dstdir))
    /\ IsFile(fs0, calls[1].srcfile) /\ fs0[calls[1].srcfile].data = "hdfA"
    /\ calls[1].out.raised # {}
    /\ fs = fs0

\* the source loads and serializes, and the destination directory exists or
\* can be created
Convertible(f, c) ==
    /\ IsFile(f, c.srcfile)
    /\ HdfTable(f[c.srcfile].data) # {}
    /\ \A t \in HdfTable(f[c.srcfile].data) : Serializable(t)
    /\ DirError(f, PathParent(SpecDst(c))) \in {"", "FileNotFoundError"}

\* C8: two calls in a row with the same arguments, a registered format and a
\* convertible source, the first from a state without the destination: the
\* first returns SUCCESS, the second SKIPPED when overwrite is false and
\* SUCCESS when it is true, and the destination holds after the second call
\* what it held after the first.
C8_SecondRunKeepsContent ==
    (Len(calls) >= 2
        /\ Registered(calls[1].fileformat)
        /\ ~Exists(calls[1].pre, SpecDst(calls[1]))
        /\ Convertible(calls[1].pre, calls[1]))
    => LET c1 == calls[1]
           c2 == calls[2]
           dst == SpecDst(c1)
       IN /\ Returned(c1) /\ Returned(c2)
          /\ TheResult(c1) = ResultSuccess(dst)
          /\ c1.overwrite = FALSE =>
                TheResult(c2) = ResultSkipped(dst, "the converted file already exists")
          /\ c1.overwrite = TRUE => TheResult(c2) = ResultSuccess(dst)
          /\ IsFile(c1.out.fs, dst) /\ IsFile(c2.out.fs, dst)
          /\ c2.out.fs[dst] = c1.out.fs[dst]
          /\ c2.out.fs[c2.srcfile] = c1.pre[c1.srcfile]

\* overwrite=true: the second run wrote the destination again
C8_Witness ==
    /\ Len(calls) = 2
    /\ calls[1].overwrite = TRUE
    /\ ~Exists(fs0, SpecDst(calls[1]))
    /\ Returned(calls[1]) /\ is_success(TheResult(calls[1]))
    /\ Returned(calls[2]) /\ is_success(TheResult(calls[2]))
    /\ \E k \in OpsOf(calls[2], {"to_csv"}) : calls[2].out.ops[k].opened
    /\ fs[SpecDst(calls[1])].data = "csvA"

\* the entries of directory d
Entries(f, d) == [q \in Listdir(f, d) |-> f[q]]

\* C9 as stated: a successful call with dstdir D wrote D/<stem>.csv and
\* created or wrote nothing in the source's own directory.
C9_Original ==
    \A i \in 1..Len(calls) :
        LET c == calls[i] IN
        (Registered(c.fileformat) /\ Returned(c) /\ is_success(TheResult(c))
            /\ c.dstdir # {})
        => /\ TheResult(c).dstfile = PathJoin(TheDir(c.dstdir), PathStem(c.srcfile) \o CSV_SUFFIX)
           /\ Entries(c.out.fs, PathParent(c.srcfile)) = Entries(c.pre, PathParent(c.srcfile))

\* C9 amended: a successful csv call wrote exactly SpecDst (D/<stem>.csv with
\* dstdir D, <parent>/<stem>.csv without), after creating the directories
\* above it that were missing, and changed nothing else; the source's own
\* directory is untouched unless D is that directory or lies below it.
C9_WritesOnlyTheDestination ==
    \A i \in 1..Len(calls) :
        LET c == calls[i]
            dst == SpecDst(c)
        IN
        (Registered(c.fileformat) /\ Returned(c) /\ is_success(TheResult(c)))
        => /\ TheResult(c).dstfile = dst
           /\ IsFile(c.out.fs, dst)
           /\ \E t \in HdfTable(c.pre[c.srcfile].data) : c.out.fs[dst].data = CsvText(t)
           /\ \A k \in OpsOf(c, {"to_csv"}) : c.out.ops[k].path = dst
           /\ \A q \in Prefixes(PathParent(dst)) : IsDir(c.out.fs, q)
           /\ \A q \in DOMAIN c.pre : q # dst => (q \in DOMAIN c.out.fs /\ c.out.fs[q] = c.pre[q])
           /\ \A q \in DOMAIN c.out.fs \ DOMAIN c.pre : q \in Prefixes(dst)
           /\ ~Exists(c.pre, PathParent(dst)) =>
                \E k \in OpsOf(c, {"mkdir"}) : \A w \in OpsOf(c, {"to_csv"}) : k < w
           /\ (c.dstdir # {} /\ PathParent(c.srcfile) \notin Prefixes(TheDir(c.dstdir)))
                => Entries(c.out.fs, PathParent(c.srcfile)) = Entries(c.pre, PathParent(c.srcfile))

\* dstdir absent with its parent absent too, outside the source's directory
C9_Witness ==
    /\ Len(calls) >= 1
    /\ Returned(calls[1]) /\ is_success(TheResult(calls[1]))
    /\ calls[1].dstdir # {}
    /\ ~Exists(fs0, PathParent(TheDir(calls[1].dstdir)))
    /\ PathParent(calls[1].srcfile) \notin Prefixes(TheDir(calls[1].dstdir))
    /\ IsFile(fs, SpecDst(calls[1]))
    /\ IsDir(fs, TheDir(calls[1].dstdir))

(***************************************************************************)
(* Properties of convert_recursive, under SpecWalk                         *)
(***************************************************************************)
\* the writes of the walk so far, in order: <<call, op>> index pairs whose
\* to_csv opened (created or truncated) its file
WalkWrites ==
    {w \in (1..Len(calls)) \X (1..4) :
        /\ w[2] <= Len(calls[w[1]].out.ops)
        /\ calls[w[1]].out.ops[w[2]].op = "to_csv"
        /\ calls[w[1]].out.ops[w[2]].opened}
WrittenPath(w) == calls[w[1]].out.ops[w[2]].path

\* C1: in a walk with overwrite=false no path that existed before the walk is
\* written, no path is written twice, and everything that existed before
\* the walk is still there with its content.
C1_NothingWrittenTwice ==
    args.overwrite = FALSE
    => /\ \A w \in WalkWrites : ~Exists(fs0, WrittenPath(w))
       /\ \A v, w \in WalkWrites : WrittenPath(v) = WrittenPath(w) => v = w
       /\ \A q \in DOMAIN fs0 : Exists(fs, q) /\ fs[q] = fs0[q]

\* two matching files of the same name in different directories, one
\* destination under dstdir: the first is converted, the second skipped
C1_Witness ==
    /\ pc = "done" /\ args.overwrite = FALSE /\ args.dstdir # {}
    /\ Len(calls) = 2
    /\ calls[1].srcfile # calls[2].srcfile
    /\ SpecDst(calls[1]) = SpecDst(calls[2])
    /\ is_success(TheResult(calls[1]))
    /\ is_skipped(TheResult(calls[2]))
    /\ Cardinality(WalkWrites) = 1

MkdirFailed(c) == \E k \in FailedOps(c) : c.out.ops[k].op = "mkdir"
Matching(f) == {q \in DOMAIN f : ~IsDir(f, q) /\ is_DLC_output(q)}
Under(d, q) == Len(q) > Len(d) /\ SubSeq(q, 1, Len(d)) = d
Attempts(q) == {i \in 1..Len(calls) : calls[i].srcfile = q}

\* C4 as stated: a destination directory that cannot be created makes convert
\* raise instead of returning a Result, and the walk stops there.
C4_Original ==
    \A i \in 1..Len(calls) :
        MkdirFailed(calls[i]) => (calls[i].out.raised # {} /\ pc = "raised")

\* C4 amended: the directory creation is inside the try statement: when it
\* fails convert prints a trace and returns FAILED "failed to convert: <error>",
\* the walk reports the file on stderr and goes on, and at its end every
\* matching file has been attempted.
C4_MkdirFailureIsReported ==
    /\ \A i \in 1..Len(calls) :
          LET c == calls[i] IN
          MkdirFailed(c)
          => /\ Returned(c)
             /\ \E k \in FailedOps(c) :
                   TheResult(c) = ResultFailed(SpecDst(c), "failed to convert: " \o c.out.ops[k].err)
             /\ c.out.trace # {}
             /\ pc # "raised"
             /\ \E j \in 1..Len(printed), k \in FailedOps(c) :
                   printed[j] = [file |-> "stderr",
                                 text |-> "***failed to convert: " \o c.out.ops[k].err \o ": ",
                                 name |-> PathName(c.srcfile)]
    /\ (pc = "done" /\ \E i \in 1..Len(calls) : MkdirFailed(calls[i]))
          => \A q \in Matching(fs) : Under(args.directory, q) => Attempts(q) # {}

\* the directory creation failed for one file and a later file was attempted
C4_Witness ==
    /\ pc = "done"
    /\ Len(calls) = 2
    /\ MkdirFailed(calls[1])
    /\ is_failed(TheResult(calls[1]))
    /\ calls[2].srcfile # calls[1].srcfile

\* the walk is over a directory with a registered format
WalkPre == Registered(args.fileformat) /\ IsDir(fs0, args.directory)

\* the lines of the walker itself, without the traces of print_exc
ReportLines == SelectSeq(printed, LAMBDA l : l.text # "Traceback")

\* the line the specification gives for the Result of one attempt
SpecLine(c) ==
    LET r == TheResult(c) IN
    IF r.status = "SUCCESS"
    THEN [file |-> "stdout", text |-> "", name |-> PathName(c.srcfile)]
    ELSE [file |-> "stderr",
          text |-> "***" \o (CHOOSE m \in r.message : TRUE) \o ": ",
          name |-> PathName(c.srcfile)]

WalkAccounting ==
    /\ \A q \in Matching(fs) : Under(args.directory, q) => Cardinality(Attempts(q)) = 1
    /\ \A i \in 1..Len(calls) :
          /\ calls[i].srcfile \in Matching(fs0)
          /\ Under(args.directory, calls[i].srcfile)
          /\ Returned(calls[i])
    /\ Len(ReportLines) = Len(calls)
    /\ \A i \in 1..Len(calls) : ReportLines[i] = SpecLine(calls[i])
    /\ \A i \in 1..Len(calls) :
          /\ (ReportLines[i].file = "stdout") = is_success(TheResult(calls[i]))
          /\ is_skipped(TheResult(calls[i]))
                => ReportLines[i].text = "***the converted file already exists: "

\* the entries the walk has still to visit: those waiting in a listing, and
\* everything below a directory that waits in a listing
WalkRemaining ==
    LET waiting == UNION {stack[i].todo : i \in 1..Len(stack)} IN
    IF pc = "start" THEN {q \in DOMAIN fs : Under(args.directory, q)}
    ELSE waiting \cup {q \in DOMAIN fs : \E d \in waiting : IsDir(fs, d) /\ Under(d, q)}

\* a bound on the steps the walk has left: an attempt uses up one matching
\* file and adds at most three entries (two directories and the output), none
\* of them a matching file
WalkRank ==
    IF pc \in {"done", "raised"} THEN 0
    ELSE 2 * (Cardinality(WalkRemaining) + 3 * Cardinality(WalkRemaining \cap Matching(fs)))
         + Len(stack) + (IF pc = "start" THEN 2 ELSE 0)

\* the walk has a next step: it has not started, or a loop of _recurse_single
\* is running, which looks at its next entry or ends
WalkCanStep == pc = "start" \/ (pc = "walking" /\ Len(stack) > 0)

\* C6: a walk over a directory with a registered format ends: it never
\* raises, it has a next step until it is done, and every step uses up some of
\* a finite rank although the walk adds entries to the tree.  At its end
\* every matching non-directory entry under the root has had exactly one
\* convert attempt and one line: its name on stdout iff the Result is SUCCESS,
\* else ***<message>: <name> on stderr; nothing else was attempted or
\* reported, whatever failed or was skipped on the way.
C6_WalkEndsWithOneLinePerMatch ==
    /\ [][WalkRank' < WalkRank]_vars
    /\ [](WalkPre => (pc = "done" \/ WalkCanStep))
    /\ []((pc = "done" /\ WalkPre) => WalkAccounting)

\* a failed file, then a converted one, in a tree the walk itself extended
\* with the destination directory
C6_Witness ==
    /\ pc = "done" /\ WalkPre
    /\ Len(calls) = 2
    /\ is_failed(TheResult(calls[1]))
    /\ is_success(TheResult(calls[2]))
    /\ args.dstdir # {} /\ ~Exists(fs0, TheDir(args.dstdir))
    /\ IsDir(fs, TheDir(args.dstdir)) /\ Under(args.directory, TheDir(args.dstdir))
    /\ Len(printed) = 3

(***************************************************************************)
(* is_DLC_output applied to one path                                       *)
(***************************************************************************)
Tokens ==
    {DLC_MARK, DEEPLABCUT_MARK, SHUFFLE_MARK, DLC_OUTPUT_SUFFIX, CSV_SUFFIX,
     <<".">>, <<"x">>, <<"h", "5">>, <<"D", "L", "C">>}

RECURSIVE NamesOf(_)
NamesOf(k) ==
    IF k = 0 THEN {<<>>}
    ELSE LET shorter == NamesOf(k - 1) IN
         shorter \cup {n \o t : n \in shorter, t \in Tokens}

ClassifierInputs ==
    {PathJoin(d, n) : d \in {<<>>, <<SRC_NAME>>}, n \in NamesOf(MaxTokens)}

Classify ==
    /\ pc = "input"
    /\ verdict' = is_DLC_output(filepath)
    /\ pc' = "classified"
    /\ UNCHANGED <<fs, fs0, args, calls, stack, printed, procs, filepath>>

InitClassify ==
    /\ filepath \in ClassifierInputs
    /\ verdict = FALSE /\ pc = "input"
    /\ fs = MakeFs({}) /\ fs0 = fs
    /\ args = [directory |-> <<>>, srcfile |-> <<>>, fileformat |-> "csv",
               dstdir |-> {}, overwrite |-> FALSE]
    /\ calls = <<>> /\ stack = <<>> /\ printed = <<>> /\ procs = <<>>

NextClassify == Classify

SpecClassify == InitClassify /\ [][NextClassify]_vars

\* C7: is_DLC_output is true exactly when the file name ends in the extension
\* .h5, contains DLC_ or DeepLabCut_, and contains shuffle; it reads the name
\* only (the directories of the path and the filesystem play no part).
C7_ClassifierIsTheConjunction ==
    pc = "classified"
    => LET name == PathName(filepath) IN
       verdict = (/\ EndsWith(name, <<".", "h", "5">>)
                  /\ (Contains(name, <<"D", "L", "C", "_">>)
                        \/ Contains(name, <<"D", "e", "e", "p", "L", "a", "b", "C", "u", "t", "_">>))
                  /\ Contains(name, <<"s", "h", "u", "f", "f", "l", "e">>))

\* a DeepLabCut_ name without DLC_, below a directory, is accepted
C7_Witness ==
    /\ pc = "classified" /\ verdict = TRUE
    /\ Len(filepath) = 2
    /\ ~Contains(PathName(filepath), DLC_MARK)
    /\ Contains(PathName(filepath), DEEPLABCUT_MARK)

(***************************************************************************)
(* Two invocations of convert running at the same time, each in its own    *)
(* process.  A step is one filesystem operation of one invocation (mkdir   *)
(* with its parents counts as one); the operations are those of Convert,   *)
(* in its order.  calls keeps the to_csv operations in the order they      *)
(* happened.                                                               *)
(***************************************************************************)
Procs == {1, 2}

SetProc(p, position, field, value) ==
    procs' = [procs EXCEPT ![p] = [@ EXCEPT !.pc = position, ![field] = value]]
Finish(p, out) ==
    procs' = [procs EXCEPT ![p] = [@ EXCEPT !.pc = "returned", !.result = out.result]]

\* Converter = FORMATS.get(...); conversion = Converter(srcfile); dstfile = ...
P_Resolve(p) ==
    /\ procs[p].pc = "enter"
    /\ IF FormatsGet(args.fileformat) = {}
       THEN procs' = [procs EXCEPT ![p].pc = "raised"]
       ELSE SetProc(p, "try", "dstfile",
                    ResolveDst(CHOOSE c \in FormatsGet(args.fileformat) : TRUE,
                               procs[p].srcfile, args.dstdir))
    /\ UNCHANGED <<fs, fs0, args, calls, pc, stack, printed, filepath, verdict>>

\* if not dstfile.parent.exists():
P_ParentExists(p) ==
    /\ procs[p].pc = "try"
    /\ procs' = [procs EXCEPT ![p].pc =
                    IF ~Exists(fs, PathParent(procs[p].dstfile)) THEN "mkdir" ELSE "dst_exists"]
    /\ UNCHANGED <<fs, fs0, args, calls, pc, stack, printed, filepath, verdict>>

\* dstfile.parent.mkdir(parents=True)
P_Mkdir(p) ==
    /\ procs[p].pc = "mkdir"
    /\ \E mk \in {Mkdir(fs, PathParent(procs[p].dstfile), FALSE)} :
        /\ fs' = mk.fs
        /\ IF mk.err # ""
           THEN /\ Finish(p, Except(mk.fs, procs[p].dstfile, mk.err, <<>>))
                /\ printed' = Append(printed, Line("stderr", "Traceback", <<>>))
           ELSE /\ procs' = [procs EXCEPT ![p].pc = "read"]
                /\ printed' = printed
    /\ UNCHANGED <<fs0, args, calls, pc, stack, filepath, verdict>>

\* elif dstfile.exists() and (bool(overwrite) is False): return Result.skipped(...)
P_DstExists(p) ==
    /\ procs[p].pc = "dst_exists"
    /\ IF ShouldSkip(fs, procs[p].dstfile, args.overwrite)
       THEN Finish(p, Return(fs, ResultSkipped(procs[p].dstfile, SKIP_MESSAGE), <<>>))
       ELSE procs' = [procs EXCEPT ![p].pc = "read"]
    /\ UNCHANGED <<fs, fs0, args, calls, pc, stack, printed, filepath, verdict>>

\* tab = pd.read_hdf(srcfile)
P_Read(p) ==
    /\ procs[p].pc = "read"
    /\ \E rd \in {ReadHdf(fs, procs[p].srcfile)} :
        IF rd.err # ""
        THEN /\ Finish(p, Except(fs, procs[p].dstfile, rd.err, <<>>))
             /\ printed' = Append(printed, Line("stderr", "Traceback", <<>>))
        ELSE /\ SetProc(p, "write", "tab", rd.tab)
             /\ printed' = printed
    /\ UNCHANGED <<fs, fs0, args, calls, pc, stack, filepath, verdict>>

\* conversion.convert(tab, dstfile); return Result.success(dstfile)
P_Write(p) ==
    /\ procs[p].pc = "write"
    /\ \E wr \in {Conversion_convert(CHOOSE c \in FormatsGet(args.fileformat) : TRUE,
                                     fs, CHOOSE t \in procs[p].tab : TRUE,
                                     procs[p].dstfile)} :
        /\ fs' = wr.fs
        /\ calls' = Append(calls, [proc |-> p,
                                   op |-> Op("to_csv", procs[p].dstfile, wr.err, wr.opened)])
        /\ IF wr.err # ""
           THEN /\ Finish(p, Except(wr.fs, procs[p].dstfile, wr.err, <<>>))
                /\ printed' = Append(printed, Line("stderr", "Traceback", <<>>))
           ELSE /\ Finish(p, Return(wr.fs, ResultSuccess(procs[p].dstfile), <<>>))
                /\ printed' = printed
    /\ UNCHANGED <<fs0, args, pc, stack, filepath, verdict>>

RaceArgs ==
    [directory : {<<>>}, srcfile : {<<>>}, fileformat : Formats,
     dstdir : {{}, {<<OUT>>}}, overwrite : BOOLEAN]

InitRace ==
    /\ fs \in Trees /\ fs0 = fs
    /\ args \in RaceArgs
    /\ \E s \in {<<SRC_NAME>>, <<A, SRC_NAME>>} :
          procs = [p \in Procs |->
                      [pc |-> "enter", srcfile |-> IF p = 1 THEN <<SRC_NAME>> ELSE s,
                       dstfile |-> <<>>, tab |-> {}, result |-> {}]]
    /\ calls = <<>> /\ pc = "race" /\ stack = <<>> /\ printed = <<>>
    /\ filepath = <<>> /\ verdict = FALSE

NextRace ==
    \E p \in Procs :
        \/ P_Resolve(p)
        \/ P_ParentExists(p)
        \/ P_Mkdir(p)
        \/ P_DstExists(p)
        \/ P_Read(p)
        \/ P_Write(p)

SpecRace == InitRace /\ [][NextRace]_vars

RaceResult(p) == CHOOSE r \in procs[p].result : TRUE
BothSucceeded ==
    /\ \A p \in Procs : procs[p].pc = "returned" /\ procs[p].result # {}
    /\ \A p \in Procs : is_success(RaceResult(p))
    /\ RaceResult(1).dstfile = RaceResult(2).dstfile
LastWriter == calls[Len(calls)].proc

\* C10: nothing orders two invocations on one destination.  Whenever both
\* have returned SUCCESS for the same destination with overwrite=false, both
\* have written it, one after the other, and the file holds what the later
\* writer wrote; such a state is reachable from a tree without the
\* destination.
C10_LastWriterWins ==
    (args.overwrite = FALSE /\ BothSucceeded)
    => /\ Len(calls) = 2
       /\ calls[1].proc # calls[2].proc
       /\ \A k \in 1..2 : calls[k].op.path = RaceResult(1).dstfile /\ calls[k].op.opened
       /\ fs[RaceResult(1).dstfile] =
             FileEntry(CsvText(CHOOSE t \in procs[LastWriter].tab : TRUE))

\* both passed the existence check of an absent destination, both wrote
\* it, both returned SUCCESS, and the first writer's content is gone
C10_Witness ==
    /\ args.overwrite = FALSE /\ BothSucceeded
    /\ ~Exists(fs0, RaceResult(1).dstfile)
    /\ procs[1].tab # procs[2].tab
    /\ Len(calls) = 2
    /\ fs[RaceResult(1).dstfile].data = CsvText(CHOOSE t \in procs[LastWriter].tab : TRUE)
    /\ printed = <<>>

====
